---- MODULE Spec2Model ----
(***************************************************************************)
(* CTRL8_XL register mirror of the ISM330DHCX driver (src/src/ctrl8xl.rs). *)
(* The mirror holds a cached byte and the device address; setters do a     *)
(* read-modify-write on the cached byte and commit the whole byte with one *)
(* bus write; getters decode from the cached byte.                         *)
(***************************************************************************)
EXTENDS Integers, Sequences, FiniteSets, TLC

(* ---------------- bounds ---------------- *)
\* number of getter/setter calls explored after construction
MaxOps == 2

(* ---------------- u8 arithmetic ---------------- *)
Byte == 0..255

Bit(x, i) == (x \div (2^i)) % 2

\* u8 `<<` : bits shifted past bit 7 are dropped
Shl(x, n) == (x * (2^n)) % 256

\* u8 `>>`
Shr(x, n) == x \div (2^n)

\* u8 `!`
Not8(x) == 255 - x

\* u8 `&`
BitAnd(a, b) ==
    Bit(a,0)*Bit(b,0) + 2*Bit(a,1)*Bit(b,1) + 4*Bit(a,2)*Bit(b,2)
  + 8*Bit(a,3)*Bit(b,3) + 16*Bit(a,4)*Bit(b,4) + 32*Bit(a,5)*Bit(b,5)
  + 64*Bit(a,6)*Bit(b,6) + 128*Bit(a,7)*Bit(b,7)

\* u8 `|`
BitOr(a, b) == a + b - BitAnd(a, b)

\* `bool as u8`
BoolAsU8(b) == IF b THEN 1 ELSE 0

(* ---------------- register constants ---------------- *)
ADDR == 23

LOW_PASS_ON_6D == 0

HP_SLOPE_XL_EN == 2

FASTSETTL_MODE_XL == 3

HP_REF_MODE_XL == 4

HPCF_XL_MASK == 7

HPCF_XL_OFFSET == 5

\* enum HPCF_Xl, in declaration order
HPCF_Xl == <<"ODR_SLOPE_4", "ODR_10", "ODR_20", "ODR_45",
             "ODR_100", "ODR_200", "ODR_400", "ODR_800">>

HPCF_Xl_Variants == { HPCF_Xl[i] : i \in 1..Len(HPCF_Xl) }

\* `value as u8` for a fieldless enum: the ordinal in declaration order
HPCF_Xl_AsU8(variant) == (CHOOSE i \in 1..Len(HPCF_Xl) : HPCF_Xl[i] = variant) - 1

\* outcome of the panic!("Unreachable") arm of hpcf()
PANIC == -1

(* ---------------- environment: the bus and the device ---------------- *)
\* I2C addresses of the device (SA0 low / high)
DeviceAddresses == {106, 107}

\* I2C::Error values the bus can report
BusErrors == {"NoAcknowledge", "ArbitrationLoss"}

BusOk == [tag |-> "Ok", val |-> "unit"]

BusErr(e) == [tag |-> "Err", val |-> e]

BusResults == {BusOk} \cup { BusErr(e) : e \in BusErrors }

\* no transaction was issued
BusIdle == [tag |-> "Idle", val |-> "none"]

VARIABLES
    value,      \* Ctrl8Xl.value : the cached byte
    address,    \* Ctrl8Xl.address : the device address
    hw,         \* content of CTRL8_XL in the device
    dev,        \* bus address the device answers on
    txs,        \* bus write transactions issued by the most recent call
    bus,        \* the bus's reply to the most recent call's transaction
    ret,        \* return value of the most recent call
    last,       \* the most recent call: [op, arg, insync], insync = mirror
                \* equalled hardware when the call was made
    nops        \* number of calls made since construction

vars == <<value, address, hw, dev, txs, bus, ret, last, nops>>

(* ---------------- Register::write ---------------- *)
\* Register::write(i2c, chip_addr, reg_addr, bits): one write transaction
Register_write(chip_addr, reg_addr, bits) ==
    << [dev |-> chip_addr, sub |-> reg_addr, byte |-> bits] >>

\* register content after the transactions `t` got bus result `res`
DeviceAfter(t, res) ==
    IF Len(t) > 0 /\ res.tag = "Ok" /\ t[Len(t)].dev = dev /\ t[Len(t)].sub = ADDR
    THEN t[Len(t)].byte
    ELSE hw

(* ---------------- Ctrl8Xl ---------------- *)
\* Ctrl8Xl::new
new(v, a) == [value |-> v, address |-> a]

\* variant of hpcf with the arms of 3 and 4 exchanged
hpcf_SwappedArms(v) ==
    LET sel == BitAnd(Shr(v, HPCF_XL_OFFSET), HPCF_XL_MASK) IN
    CASE sel = 0 -> 4
      [] sel = 1 -> 10
      [] sel = 2 -> 20
      [] sel = 3 -> 100
      [] sel = 4 -> 45
      [] sel = 5 -> 200
      [] sel = 6 -> 400
      [] sel = 7 -> 800
      [] OTHER -> PANIC

\* variant of hpcf without the arm of 7
hpcf_MissingArm(v) ==
    LET sel == BitAnd(Shr(v, HPCF_XL_OFFSET), HPCF_XL_MASK) IN
    CASE sel = 0 -> 4
      [] sel = 1 -> 10
      [] sel = 2 -> 20
      [] sel = 3 -> 45
      [] sel = 4 -> 100
      [] sel = 5 -> 200
      [] sel = 6 -> 400
      [] OTHER -> PANIC

\* Ctrl8Xl::hpcf
hpcf(v) ==
    LET sel == BitAnd(Shr(v, HPCF_XL_OFFSET), HPCF_XL_MASK) IN
    CASE sel = 0 -> 4
      [] sel = 1 -> 10
      [] sel = 2 -> 20
      [] sel = 3 -> 45
      [] sel = 4 -> 100
      [] sel = 5 -> 200
      [] sel = 6 -> 400
      [] sel = 7 -> 800
      [] OTHER -> PANIC

\* the cached byte computed by set_hpcf
set_hpcf_value(v, variant) ==
    BitOr(BitAnd(v, Not8(Shl(HPCF_XL_MASK, HPCF_XL_OFFSET))),
          Shl(HPCF_Xl_AsU8(variant), HPCF_XL_OFFSET))

\* Ctrl8Xl::hp_slope_xl_en
hp_slope_xl_en(v) == BitAnd(v, Shl(1, HP_SLOPE_XL_EN)) # 0

\* variant of set_hp_slope_xl_en that assigns the bit instead of or-ing it in
set_hp_slope_xl_en_value_Assign(v, b) == Shl(BoolAsU8(b), HP_SLOPE_XL_EN)

set_hp_slope_xl_en_value(v, b) ==
    BitOr(BitAnd(v, Not8(Shl(1, HP_SLOPE_XL_EN))), Shl(BoolAsU8(b), HP_SLOPE_XL_EN))

\* Ctrl8Xl::low_pass_on_6d
low_pass_on_6d(v) == BitAnd(v, Shl(1, LOW_PASS_ON_6D)) # 0

set_low_pass_on_6d_value(v, b) ==
    BitOr(BitAnd(v, Not8(Shl(1, LOW_PASS_ON_6D))), Shl(BoolAsU8(b), LOW_PASS_ON_6D))

\* Ctrl8Xl::fastsettl_mode (tests the LOW_PASS_ON_6D bit)
fastsettl_mode(v) == BitAnd(v, Shl(1, LOW_PASS_ON_6D)) # 0

set_fastsettl_mode_value(v, b) ==
    BitOr(BitAnd(v, Not8(Shl(1, FASTSETTL_MODE_XL))), Shl(BoolAsU8(b), FASTSETTL_MODE_XL))

\* Ctrl8Xl::hp_ref_mode (tests the LOW_PASS_ON_6D bit)
hp_ref_mode(v) == BitAnd(v, Shl(1, LOW_PASS_ON_6D)) # 0

set_hp_ref_mode_value(v, b) ==
    BitOr(BitAnd(v, Not8(Shl(1, HP_REF_MODE_XL))), Shl(BoolAsU8(b), HP_REF_MODE_XL))

(* ---------------- calls ---------------- *)
\* a getter call: returns r, touches neither the mirror nor the bus
Getter(op, tag, r) ==
    /\ nops < MaxOps
    /\ ret' = [tag |-> tag, val |-> r]
    /\ txs' = << >>
    /\ bus' = BusIdle
    /\ last' = [op |-> op, arg |-> "none", insync |-> (value = hw)]
    /\ nops' = nops + 1
    /\ UNCHANGED <<value, address, hw, dev>>

\* a setter call: mirror := newv, then self.write(i2c, self.address, ADDR, self.value)
Setter(op, arg, newv) ==
    /\ nops < MaxOps
    /\ \E res \in BusResults :
         LET t == Register_write(address, ADDR, newv) IN
         /\ value' = newv
         /\ txs' = t
         /\ bus' = res
         /\ hw' = DeviceAfter(t, res)
         /\ ret' = res
    /\ last' = [op |-> op, arg |-> arg, insync |-> (value = hw)]
    /\ nops' = nops + 1
    /\ UNCHANGED <<address, dev>>

\* a call that sets the mirror to newv (kept is the mirror when the bus fails),
\* issues the transactions t and returns what r makes of the bus reply
Variant(op, arg, newv, kept, t) ==
    /\ nops < MaxOps
    /\ \E res \in (IF Len(t) > 0 THEN BusResults ELSE {BusIdle}) :
         /\ value' = (IF res.tag = "Err" THEN kept ELSE newv)
         /\ txs' = t
         /\ bus' = res
         /\ hw' = DeviceAfter(t, res)
         /\ ret' = res
    /\ last' = [op |-> op, arg |-> arg, insync |-> (value = hw)]
    /\ nops' = nops + 1
    /\ UNCHANGED <<address, dev>>

call_hpcf == Getter("hpcf", "f32", hpcf(value))

\* variant of hp_slope_xl_en that writes the mirror back to the device
call_hp_slope_xl_en_WriteBack ==
    /\ nops < MaxOps
    /\ \E res \in BusResults :
         LET t == Register_write(address, ADDR, value) IN
         /\ txs' = t
         /\ bus' = res
         /\ hw' = DeviceAfter(t, res)
    /\ ret' = [tag |-> "bool", val |-> hp_slope_xl_en(value)]
    /\ last' = [op |-> "hp_slope_xl_en", arg |-> "none", insync |-> (value = hw)]
    /\ nops' = nops + 1
    /\ UNCHANGED <<value, address, dev>>

call_hp_slope_xl_en == Getter("hp_slope_xl_en", "bool", hp_slope_xl_en(value))

call_low_pass_on_6d == Getter("low_pass_on_6d", "bool", low_pass_on_6d(value))

call_fastsettl_mode == Getter("fastsettl_mode", "bool", fastsettl_mode(value))

call_hp_ref_mode == Getter("hp_ref_mode", "bool", hp_ref_mode(value))

set_hpcf ==
    \E variant \in HPCF_Xl_Variants :
        Setter("set_hpcf", variant, set_hpcf_value(value, variant))

\* variant of set_hp_slope_xl_en that sends only the field's bits
set_hp_slope_xl_en_FieldOnlyWrite ==
    \E b \in BOOLEAN :
        Variant("set_hp_slope_xl_en", b,
                set_hp_slope_xl_en_value(value, b),
                set_hp_slope_xl_en_value(value, b),
                Register_write(address, ADDR, Shl(BoolAsU8(b), HP_SLOPE_XL_EN)))

set_hp_slope_xl_en ==
    \E b \in BOOLEAN :
        Setter("set_hp_slope_xl_en", b, set_hp_slope_xl_en_value(value, b))

\* variant of set_low_pass_on_6d that writes before it updates the mirror
set_low_pass_on_6d_WriteBeforeUpdate ==
    \E b \in BOOLEAN :
        Variant("set_low_pass_on_6d", b,
                set_low_pass_on_6d_value(value, b),
                set_low_pass_on_6d_value(value, b),
                Register_write(address, ADDR, value))

set_low_pass_on_6d ==
    \E b \in BOOLEAN :
        Setter("set_low_pass_on_6d", b, set_low_pass_on_6d_value(value, b))

set_fastsettl_mode ==
    \E b \in BOOLEAN :
        Setter("set_fastsettl_mode", b, set_fastsettl_mode_value(value, b))

\* variant of set_hp_ref_mode that restores the mirror when the bus fails
set_hp_ref_mode_Rollback ==
    \E b \in BOOLEAN :
        Variant("set_hp_ref_mode", b,
                set_hp_ref_mode_value(value, b),
                value,
                Register_write(address, ADDR, set_hp_ref_mode_value(value, b)))

set_hp_ref_mode ==
    \E b \in BOOLEAN :
        Setter("set_hp_ref_mode", b, set_hp_ref_mode_value(value, b))

\* state right after Ctrl8Xl::new(v, a) for a device at address a holding h
Constructed(v, a, h) ==
    /\ value = new(v, a).value
    /\ address = new(v, a).address
    /\ hw = h
    /\ dev = a
    /\ txs = << >>
    /\ bus = BusIdle
    /\ ret = [tag |-> "none", val |-> "none"]
    /\ last = [op |-> "new", arg |-> "none", insync |-> (v = h)]
    /\ nops = 0

\* constructed with the true current hardware value
Init == \E v \in Byte, a \in DeviceAddresses : Constructed(v, a, v)

\* constructed with a byte that need not match the hardware: the mirror is
\* built from the reset default 0x00, or the device is at its reset default
InitAny ==
    \E v \in Byte, h \in Byte, a \in DeviceAddresses :
        /\ (v = 0 \/ h = 0)
        /\ Constructed(v, a, h)

Next ==
    \/ call_hpcf
    \/ call_hp_slope_xl_en
    \/ call_low_pass_on_6d
    \/ call_fastsettl_mode
    \/ call_hp_ref_mode
    \/ set_hpcf
    \/ set_hp_slope_xl_en
    \/ set_low_pass_on_6d
    \/ set_fastsettl_mode
    \/ set_hp_ref_mode

Spec == Init /\ [][Next]_vars

SpecAny == InitAny /\ [][Next]_vars

(* ======================= properties ======================= *)
GetterOps == {"hpcf", "hp_slope_xl_en", "low_pass_on_6d", "fastsettl_mode", "hp_ref_mode"}

BoolSetterOps == {"set_hp_slope_xl_en", "set_low_pass_on_6d",
                  "set_fastsettl_mode", "set_hp_ref_mode"}

SetterOps == BoolSetterOps \cup {"set_hpcf"}

\* the field a setter writes
FieldOf(op) ==
    CASE op = "set_hpcf" -> "hpcf"
      [] op = "set_hp_slope_xl_en" -> "hp_slope_xl_en"
      [] op = "set_low_pass_on_6d" -> "low_pass_on_6d"
      [] op = "set_fastsettl_mode" -> "fastsettl_mode"
      [] op = "set_hp_ref_mode" -> "hp_ref_mode"

\* bit layout of the register as documented: bit offset of each field
DocOffset(f) ==
    CASE f = "low_pass_on_6d" -> 0
      [] f = "hp_slope_xl_en" -> 2
      [] f = "fastsettl_mode" -> 3
      [] f = "hp_ref_mode" -> 4
      [] f = "hpcf" -> 5

\* v & !mask(f), for the documented masks 0b111 << 5 of HPCF_XL and
\* 1 << offset of the booleans: v with the bits of field f cleared
DocCleared(v, f) ==
    IF f = "hpcf" THEN v % 32
    ELSE v - ((v \div (2^DocOffset(f))) % 2) * (2^DocOffset(f))

\* documented cutoff selector: ordinal (index - 1) and ODR divisor
DocVariants == <<"ODR_SLOPE_4", "ODR_10", "ODR_20", "ODR_45",
                 "ODR_100", "ODR_200", "ODR_400", "ODR_800">>

DocDivisors == <<4, 10, 20, 45, 100, 200, 400, 800>>

DocOrdinal(variant) == (CHOOSE i \in 1..8 : DocVariants[i] = variant) - 1

\* documented encoding of a setter's argument
DocEncoded(f, arg) ==
    IF f = "hpcf" THEN DocOrdinal(arg) * 32
    ELSE (IF arg THEN 2^DocOffset(f) ELSE 0)

\* documented read-modify-write result: (old & !mask) | encoded
DocWritten(old, f, arg) == DocCleared(old, f) + DocEncoded(f, arg)

\* what the getter of field f returns for the cached byte v
Read(f, v) ==
    CASE f = "hpcf" -> hpcf(v)
      [] f = "hp_slope_xl_en" -> hp_slope_xl_en(v)
      [] f = "low_pass_on_6d" -> low_pass_on_6d(v)
      [] f = "fastsettl_mode" -> fastsettl_mode(v)
      [] f = "hp_ref_mode" -> hp_ref_mode(v)

Fields == {"hpcf", "hp_slope_xl_en", "low_pass_on_6d", "fastsettl_mode", "hp_ref_mode"}

\* C1: after a successful set_f(v) of a boolean field f, the getter of f
\* returns v and the getters of all other fields return what they returned
\* before; from 0xFF, clearing LOW_PASS_ON_6D gives 0xFE with hp_slope_xl_en,
\* fastsettl_mode and hp_ref_mode still reading true.
C1_ReadAfterWrite ==
    [][ (last'.op \in BoolSetterOps /\ ret'.tag = "Ok") =>
          /\ Read(FieldOf(last'.op), value') = last'.arg
          /\ \A g \in Fields \ {FieldOf(last'.op)} : Read(g, value') = Read(g, value)
          /\ (value = 255 /\ last'.op = "set_low_pass_on_6d" /\ last'.arg = FALSE) =>
                /\ value' = 254
                /\ hp_slope_xl_en(value')
                /\ fastsettl_mode(value')
                /\ hp_ref_mode(value')
      ]_vars

\* C2: a setter never alters bits outside its field's mask, whether the bus
\* write succeeds or fails; the unmapped bit 1 is never changed by any call.
C2_FrameOutsideMask ==
    [][ /\ last'.op \in SetterOps =>
              DocCleared(value', FieldOf(last'.op)) = DocCleared(value, FieldOf(last'.op))
        /\ Bit(value', 1) = Bit(value, 1)
      ]_vars

\* C2 witness: a failed set_hpcf changed the cutoff bits of a byte whose bit 1
\* and low bits are set.
C2_Witness ==
    /\ last.op = "set_hpcf"
    /\ bus.tag = "Err"
    /\ last.insync
    /\ value # hw
    /\ Bit(value, 1) = 1
    /\ value % 32 = 31

\* C3: constructed with the true hardware value, the cached byte equals the
\* hardware register content in every reachable state.
C3_MirrorEqualsHardware == value = hw

\* C4: after set_hpcf(variant), bits 5..7 of the cached byte are the variant's
\* ordinal and hpcf() gives the documented divisor; a later hpcf() call returns
\* the divisor of the stored ordinal; from 0x00, set_hpcf(ODR_45) gives 0x60.
C4_CutoffRoundTrip ==
    [][ /\ last'.op = "set_hpcf" =>
              /\ Shr(value', 5) = DocOrdinal(last'.arg)
              /\ hpcf(value') = DocDivisors[DocOrdinal(last'.arg) + 1]
              /\ (value = 0 /\ last'.arg = "ODR_45") => value' = 96
        /\ (last'.op = "hpcf" /\ last.op = "set_hpcf") =>
              ret'.val = DocDivisors[DocOrdinal(last.arg) + 1]
      ]_vars

\* C4 witness: hpcf() was called after set_hpcf(ODR_45) and returned 45.
C4_Witness ==
    /\ last.op = "hpcf"
    /\ Shr(value, 5) = 3
    /\ ret.val = 45
    /\ nops = 2

\* C5: every setter call issues exactly one bus write, to the device address
\* given at construction, sub-address 0x17, carrying the new cached byte.
C5_OneTransaction ==
    [][ last'.op \in SetterOps =>
          /\ Len(txs') = 1
          /\ txs'[1].dev = dev
          /\ address' = dev
          /\ txs'[1].sub = 23
          /\ txs'[1].byte = DocWritten(value, FieldOf(last'.op), last'.arg)
          /\ txs'[1].byte = value'
      ]_vars

\* C5 witness: set_low_pass_on_6d(false) on 0xFF sent 0xFE and the bus failed.
C5_Witness ==
    /\ last.op = "set_low_pass_on_6d"
    /\ last.arg = FALSE
    /\ Len(txs) = 1
    /\ txs[1].byte = 254
    /\ bus.tag = "Err"

\* C6: a getter call returns the decoding of the cached byte, issues no bus
\* transaction and leaves cached byte, device address and hardware unchanged.
C6_GettersPure ==
    [][ last'.op \in GetterOps =>
          /\ ret'.tag \in {"bool", "f32"}
          /\ ret'.val = Read(last'.op, value)
          /\ txs' = << >>
          /\ bus'.tag = "Idle"
          /\ value' = value
          /\ address' = address
          /\ hw' = hw
      ]_vars

\* C6 witness: hp_slope_xl_en() returned true while mirror and hardware differ.
C6_Witness ==
    /\ last.op = "hp_slope_xl_en"
    /\ ret.val = TRUE
    /\ value # hw
    /\ txs = << >>

\* C7 (as stated): a setter returns the bus result; on a bus failure the
\* cached byte holds (old & !mask) | encoded, hardware is untouched, and mirror
\* and hardware differ whenever the new value differs from the old one.
C7_NoRollback_Original ==
    [][ last'.op \in SetterOps =>
          /\ ret' = bus'
          /\ bus'.tag \in {"Ok", "Err"}
          /\ bus'.tag = "Err" =>
                /\ value' = DocWritten(value, FieldOf(last'.op), last'.arg)
                /\ hw' = hw
                /\ (value' # value => value' # hw')
      ]_vars

\* C7 (amended): as above, but mirror and hardware are only bound to differ
\* when they agreed before the call.
C7_NoRollback ==
    [][ last'.op \in SetterOps =>
          /\ ret' = bus'
          /\ bus'.tag \in {"Ok", "Err"}
          /\ bus'.tag = "Err" =>
                /\ value' = DocWritten(value, FieldOf(last'.op), last'.arg)
                /\ hw' = hw
                /\ ((value = hw /\ value' # value) => value' # hw')
      ]_vars

\* C7 witness: set_hp_ref_mode failed with ArbitrationLoss on an in-sync
\* mirror, which now differs from hardware.
C7_Witness ==
    /\ last.op = "set_hp_ref_mode"
    /\ ret.tag = "Err"
    /\ ret.val = "ArbitrationLoss"
    /\ last.insync
    /\ value # hw

\* C8: each boolean getter returns its own field's bit of the cached byte:
\* bit 0, 2, 3, 4 for low_pass_on_6d, hp_slope_xl_en, fastsettl_mode,
\* hp_ref_mode.
C8_GetterReadsOwnBit ==
    (last.op \in GetterOps \ {"hpcf"}) =>
        ret.val = (Bit(value, DocOffset(last.op)) = 1)

\* C9: the panic arm of hpcf() is never taken: for every cached byte hpcf()
\* gives one of the 8 divisors, and so does every hpcf() call.
C9_NoPanic ==
    /\ hpcf(value) # PANIC
    /\ \E i \in 1..8 : hpcf(value) = DocDivisors[i]
    /\ last.op = "hpcf" => (\E i \in 1..8 : ret.val = DocDivisors[i])

\* C9 witness: hpcf() was called on a byte whose selector a setter made 7.
C9_Witness ==
    /\ last.op = "hpcf"
    /\ Shr(value, 5) = 7
    /\ ret.val = 800
    /\ nops = 2
    /\ value # hw

\* C10: whenever the most recent setter call returned Ok, the cached byte
\* equals the hardware register, whatever failed or mismatched before.
C10_OkHeals ==
    (last.op \in SetterOps /\ ret.tag = "Ok") => value = hw

\* C10 witness: a setter returned Ok on a mirror that differed from hardware
\* in other fields than the one written.
C10_Witness ==
    /\ last.op = "set_low_pass_on_6d"
    /\ ret.tag = "Ok"
    /\ ~last.insync
    /\ value = hw
    /\ value >= 32

====
